---- MODULE Spec2Model ----
(***************************************************************************)
(* generate_icons.py: the icon renderer create_icon(size) and the batch    *)
(* driver that writes icons/icon16.png, icon48.png and icon128.png.        *)
(*                                                                         *)
(* The canvas maps a row and a column to a pixel <<r, g, b, a>>.  The      *)
(* drawing calls follow Pillow's ImageDraw: rectangle() is inclusive of    *)
(* both corners and clips to the image, an outline of width w grows inward *)
(* from the box, and a wide horizontal line from (x0, y) to (x1, y) is the *)
(* filled polygon of rows y - dymin .. y + dymax.                          *)
(***************************************************************************)
EXTENDS Integers, Sequences, FiniteSets, TLC

VARIABLES
    pc,            \* position in the script
    size,          \* the loop variable / create_icon's parameter
    img,           \* create_icon's canvas
    y,             \* the gradient loop's row
    padding, line_width,
    line_start_x, line_end_x, line1_y, line2_y, line3_y,
    strokes,       \* the stroke calls made on the canvas, in order
    icon,          \* the driver's icon = create_icon(size)
    i,             \* index of the driver's loop in sizes
    dirExists,     \* os.path.exists(icons_dir)
    files,         \* the files of icons/: name -> content
    out,           \* the lines printed by this invocation
    saved,         \* the saves that returned in this invocation, in order
    failure,       \* the exception that ended this invocation, or "none"
    run,           \* how many times the script was invoked
    startDir, startFiles, \* the disk when this invocation started
    madeDir,       \* whether this invocation called os.makedirs
    prevDone       \* whether the previous invocation ran to completion

iconVars == <<size, img, y, padding, line_width, line_start_x, line_end_x,
              line1_y, line2_y, line3_y, strokes>>
diskVars == <<dirExists, files>>
runVars == <<run, startDir, startFiles, prevDone>>
vars == <<pc, iconVars, icon, i, diskVars, out, saved, failure, runVars, madeDir>>

\* The largest edge length create_icon is run on by itself, besides the driver's.
MaxSize == 36
\* How many times the script is invoked in a row.
MaxRuns == 2

icons_dir == "icons"
sizes == <<16, 48, 128>>

None == "None"
Transparent == <<0, 0, 0, 0>>
White == <<255, 255, 255, 255>>

Max(a, b) == IF a >= b THEN a ELSE b
Min(a, b) == IF a <= b THEN a ELSE b

RECURSIVE Pow2(_)
Pow2(n) == IF n <= 0 THEN 1 ELSE 2 * Pow2(n - 1)

RECURSIVE FloorLog2(_)
FloorLog2(v) == IF v <= 1 THEN 0 ELSE 1 + FloorLog2(v \div 2)

\* Python's int() of a quotient: truncation toward zero.
IntTrunc(n, d) == IF n >= 0 THEN n \div d ELSE -((-n) \div d)

(***************************************************************************)
(* The float literals of the source as IEEE-754 doubles.  The double c     *)
(* nearest num/den has the 53-bit mantissa M = (num * 2^E - below) / den   *)
(* with E = 53 + shift, so below > 0 says that c lies under num/den and    *)
(* below < 0 that it lies over it.                                         *)
(***************************************************************************)
D015 == [num |-> 3, den |-> 20, below |-> 4,  shift |-> 2]   \* 0.15
D02  == [num |-> 1, den |-> 5,  below |-> -2, shift |-> 2]   \* 0.2
D03  == [num |-> 3, den |-> 10, below |-> 2,  shift |-> 1]   \* 0.3
D05  == [num |-> 1, den |-> 2,  below |-> 0,  shift |-> 0]   \* 0.5
D07  == [num |-> 7, den |-> 10, below |-> 4,  shift |-> 0]   \* 0.7
D08  == [num |-> 4, den |-> 5,  below |-> -2, shift |-> 0]   \* 0.8

(***************************************************************************)
(* int(n * c) for an integer n >= 0 and a double c: the product n * c is   *)
(* rounded to the nearest double (ties to even) and then truncated.  The   *)
(* exact product is n*num/den - n*below/(den * 2^E).  It truncates to      *)
(* floor(n*num/den) unless n*num/den is an integer k and c lies under      *)
(* num/den: then the product lies just under k, and it rounds up to k      *)
(* exactly when its distance to k is at most half the spacing of the       *)
(* doubles under k, which is 2^(FloorLog2(2k - 1) - 54); otherwise the     *)
(* result is k - 1.  (int(90 * 0.7) is 62.)                                *)
(***************************************************************************)
IntMul(n, c) ==
    LET q == n * c.num
        k == q \div c.den
    IN  IF q % c.den # 0 \/ c.below <= 0 \/ n = 0
        THEN k
        ELSE IF 2 * n * c.below <= c.den * Pow2(FloorLog2(2 * k - 1) + c.shift)
             THEN k
             ELSE k - 1

----------------------------------------------------------------------------
(* The canvas and the drawing calls.                                       *)

\* The canvas is stored by rows: img[row][col], both from 0 to size - 1.
Range(sz) == 0 .. sz - 1

\* Image.new('RGBA', (size, size), (0, 0, 0, 0))
NewImage(sz) == [row \in Range(sz) |-> [col \in Range(sz) |-> Transparent]]

Box(x0, y0, x1, y1) == [x0 |-> x0, y0 |-> y0, x1 |-> x1, y1 |-> y1]

\* Mutant of Clip: the box is not cut to the image.
ClipNone(b, sz) == b

\* The drawing primitives write only inside the image: a box is cut to it.
Clip(b, sz) ==
    [x0 |-> Max(b.x0, 0), y0 |-> Max(b.y0, 0),
     x1 |-> Min(b.x1, sz - 1), y1 |-> Min(b.y1, sz - 1)]

InBox(col, row, b) == b.x0 <= col /\ col <= b.x1 /\ b.y0 <= row /\ row <= b.y1

\* The pixels of every box of bs are set to ink, the others are kept.
Paint(im, sz, bs, ink) ==
    LET cs == {Clip(b, sz) : b \in bs}
        rows == UNION {c.y0 .. c.y1 : c \in {d \in cs : d.x0 <= d.x1}}
        cols(row) == UNION {c.x0 .. c.x1 : c \in {d \in cs : d.y0 <= row /\ row <= d.y1}}
        old(row) == IF row \in DOMAIN im THEN DOMAIN im[row] ELSE {}
    IN  [row \in (DOMAIN im) \cup rows |->
            IF row \notin rows THEN im[row]
            ELSE [col \in old(row) \cup cols(row) |->
                    IF \E c \in cs : InBox(col, row, c) THEN ink ELSE im[row][col]]]

\* draw.rectangle([(x0, y0), (x1, y1)], fill=ink): both corners inclusive.
FillBoxes(x0, y0, x1, y1) == {Box(x0, y0, x1, y1)}

\* Mutant of OutlineBoxes: the outline is centred on the box and reaches out of it.
OutlineBoxesOutward(x0, y0, x1, y1, w) ==
    {Box(x0 - w \div 2, y0 - w \div 2, x1 + w \div 2, y0 + w \div 2),
     Box(x0 - w \div 2, y1 - w \div 2, x1 + w \div 2, y1 + w \div 2),
     Box(x0 - w \div 2, y0 - w \div 2, x0 + w \div 2, y1 + w \div 2),
     Box(x1 - w \div 2, y0 - w \div 2, x1 + w \div 2, y1 + w \div 2)}

\* draw.rectangle([x0, y0, x1, y1], outline=ink, width=w): for each i < w the
\* rows y0 + i and y1 - i from x0 to x1, and the columns x1 - i and x0 + i
\* from y0 + w to y1 - w + 1.
OutlineBoxes(x0, y0, x1, y1, w) ==
    UNION {
        { Box(x0, y0 + k, x1, y0 + k),
          Box(x0, y1 - k, x1, y1 - k),
          Box(x1 - k, Min(y0 + w, y1 - w + 1), x1 - k, Max(y0 + w, y1 - w + 1)),
          Box(x0 + k, Min(y0 + w, y1 - w + 1), x0 + k, Max(y0 + w, y1 - w + 1)) }
        : k \in 0 .. w - 1 }

\* draw.line([(x0, ly), (x1, ly)], fill=ink, width=w), a horizontal line.  For
\* w > 1 and x0 # x1 the line is the polygon whose rows run from ly - dymin to
\* ly + dymax, with dymin and dymax the roundings up and down of
\* (w - 1) / 2 * sign(x1 - x0); for x0 = x1 it is the single point.
LineBoxes(x0, x1, ly, w) ==
    IF w <= 1 THEN {Box(Min(x0, x1), ly, Max(x0, x1), ly)}
    ELSE IF x0 = x1 THEN {Box(x0, ly, x0, ly)}
    ELSE LET up == w \div 2            \* floor((w - 1) / 2 + 0.5)
             down == (w - 1) \div 2    \* ceil((w - 1) / 2 - 0.5)
             dymin == IF x1 > x0 THEN up ELSE -up
             dymax == IF x1 > x0 THEN down ELSE -down
         IN  {Box(Min(x0, x1), Min(ly - dymin, ly + dymax),
                  Max(x0, x1), Max(ly - dymin, ly + dymax))}

----------------------------------------------------------------------------
(* create_icon's arithmetic.                                               *)

\* Mutant of Channel: the ratio is taken one row too far, (row + 1) / sz.
ChannelNextRow(a, b, row, sz) == IntTrunc(a * sz + (b - a) * (row + 1), sz)

\* int(a + (b - a) * ratio) with ratio = row / sz.  On doubles this equals the
\* truncation of the exact quotient for every sz up to 300 and every row < sz.
Channel(a, b, row, sz) == IntTrunc(a * sz + (b - a) * row, sz)

GradientColor(row, sz) ==
    <<Channel(139, 59, row, sz), Channel(92, 130, row, sz),
      Channel(246, 246, row, sz), 255>>

Padding(sz) == IntMul(sz, D015)
Inner(sz) == sz - 2 * Padding(sz)
RectCoords(sz) == Box(Padding(sz), Padding(sz), sz - Padding(sz), sz - Padding(sz))

\* Mutant of LineWidth: the lower limit of 2 is missing.
LineWidthNoMin(sz) == sz \div 32

LineWidth(sz) == Max(2, sz \div 32)

LineStartX(sz) == Padding(sz) + IntMul(Inner(sz), D02)
LineEndX(sz) == Padding(sz) + IntMul(Inner(sz), D08)
Line1Y(sz) == Padding(sz) + IntMul(Inner(sz), D03)
Line2Y(sz) == Padding(sz) + IntMul(Inner(sz), D05)
Line3Y(sz) == Padding(sz) + IntMul(Inner(sz), D07)

\* Mutant of Line3EndX: the third line is shortened by 0.8 of the inner width.
Line3EndXWrong(sz) == LineEndX(sz) - IntMul(Inner(sz), D08)

Line3EndX(sz) == LineEndX(sz) - IntMul(Inner(sz), D02)

Stroke(op, b, w) == [op |-> op, xy |-> b, width |-> w]

----------------------------------------------------------------------------
(* create_icon, statement by statement.                                    *)

\* Mutant of Allocate: the gradient loop starts at row 1.
AllocateFromRowOne ==
    /\ pc = "new"
    /\ img' = NewImage(size)
    /\ y' = 1
    /\ pc' = "gradient"
    /\ UNCHANGED <<size, padding, line_width, line_start_x, line_end_x,
                   line1_y, line2_y, line3_y, strokes,
                   icon, i, diskVars, out, saved, failure, runVars, madeDir>>

\* img = Image.new(...); draw = ImageDraw.Draw(img)
Allocate ==
    /\ pc = "new"
    /\ img' = NewImage(size)
    /\ y' = 0
    /\ pc' = "gradient"
    /\ UNCHANGED <<size, padding, line_width, line_start_x, line_end_x,
                   line1_y, line2_y, line3_y, strokes,
                   icon, i, diskVars, out, saved, failure, runVars, madeDir>>

\* One iteration of for y in range(size): rows y and y + 1 are filled.
GradientRow ==
    /\ pc = "gradient"
    /\ y < size
    /\ img' = Paint(img, size, FillBoxes(0, y, size, y + 1), GradientColor(y, size))
    /\ y' = y + 1
    /\ UNCHANGED <<pc, size, padding, line_width, line_start_x, line_end_x,
                   line1_y, line2_y, line3_y, strokes,
                   icon, i, diskVars, out, saved, failure, runVars, madeDir>>

\* padding, rect_coords, line_width and the outline.
DrawOutline ==
    /\ pc = "gradient"
    /\ y >= size
    /\ padding' = Padding(size)
    /\ line_width' = LineWidth(size)
    /\ LET r == RectCoords(size)
       IN  /\ img' = Paint(img, size,
                           OutlineBoxes(r.x0, r.y0, r.x1, r.y1, LineWidth(size)), White)
           /\ strokes' = Append(strokes, Stroke("rectangle", r, LineWidth(size)))
    /\ pc' = "line1"
    /\ UNCHANGED <<size, y, line_start_x, line_end_x, line1_y, line2_y, line3_y,
                   icon, i, diskVars, out, saved, failure, runVars, madeDir>>

\* A guide line from (x0, ly) to (x1, ly) at the width in line_width.
DrawLine(x0, x1, ly) ==
    /\ img' = Paint(img, size, LineBoxes(x0, x1, ly, line_width), White)
    /\ strokes' = Append(strokes, Stroke("line", Box(x0, ly, x1, ly), line_width))

\* line_start_x .. line3_y and the first guide line.
DrawLine1 ==
    /\ pc = "line1"
    /\ line_start_x' = LineStartX(size)
    /\ line_end_x' = LineEndX(size)
    /\ line1_y' = Line1Y(size)
    /\ line2_y' = Line2Y(size)
    /\ line3_y' = Line3Y(size)
    /\ DrawLine(LineStartX(size), LineEndX(size), Line1Y(size))
    /\ pc' = "line2"
    /\ UNCHANGED <<size, y, padding, line_width,
                   icon, i, diskVars, out, saved, failure, runVars, madeDir>>

DrawLine2 ==
    /\ pc = "line2"
    /\ DrawLine(line_start_x, line_end_x, line2_y)
    /\ pc' = "line3"
    /\ UNCHANGED <<size, y, padding, line_width, line_start_x, line_end_x,
                   line1_y, line2_y, line3_y,
                   icon, i, diskVars, out, saved, failure, runVars, madeDir>>

DrawLine3 ==
    /\ pc = "line3"
    /\ DrawLine(line_start_x, Line3EndX(size), line3_y)
    /\ pc' = "return"
    /\ UNCHANGED <<size, y, padding, line_width, line_start_x, line_end_x,
                   line1_y, line2_y, line3_y,
                   icon, i, diskVars, out, saved, failure, runVars, madeDir>>

\* Mutant of Return: the driver announces the icon without saving it.
ReturnThenPrint ==
    /\ pc = "return"
    /\ icon' = img
    /\ pc' = "print"
    /\ UNCHANGED <<iconVars, i, diskVars, out, saved, failure, runVars, madeDir>>

\* return img
Return ==
    /\ pc = "return"
    /\ icon' = img
    /\ pc' = "save"
    /\ UNCHANGED <<iconVars, i, diskVars, out, saved, failure, runVars, madeDir>>

CreateIcon ==
    \/ Allocate \/ GradientRow \/ DrawOutline
    \/ DrawLine1 \/ DrawLine2 \/ DrawLine3 \/ Return

\* create_icon(size) run by itself, for any edge length.
InitIcon ==
    /\ pc = "new"
    /\ size \in (1 .. MaxSize) \cup {sizes[k] : k \in DOMAIN sizes}
    /\ img = None /\ y = None /\ strokes = <<>>
    /\ padding = None /\ line_width = None
    /\ line_start_x = None /\ line_end_x = None
    /\ line1_y = None /\ line2_y = None /\ line3_y = None
    /\ icon = None /\ i = 0
    /\ dirExists = FALSE /\ files = <<>> /\ out = <<>> /\ saved = <<>>
    /\ failure = "none" /\ run = 0 /\ startDir = FALSE /\ startFiles = <<>>
    /\ madeDir = FALSE /\ prevDone = FALSE

SpecIcon == InitIcon /\ [][CreateIcon]_vars
----------------------------------------------------------------------------
(* The batch driver.                                                       *)

\* f'icon{size}.png', the file's name inside icons_dir.
FileName(s) == "icon" \o ToString(s) \o ".png"

\* The file a completed save leaves: the PNG encoding keeps every pixel.
Png(im) == [format |-> "PNG", mode |-> "RGBA", complete |-> TRUE, pixels |-> im]
\* What a save that failed after opening its file may leave.
Incomplete == [format |-> "PNG", mode |-> "RGBA", complete |-> FALSE, pixels |-> <<>>]

Progress(s) == "Created " \o FileName(s)
Completion == "All icons created successfully!"

\* Mutant of NeedsMakedirs: os.makedirs is called without the test.
NeedsMakedirsAlways(exists) == TRUE

\* if not os.path.exists(icons_dir):
NeedsMakedirs(exists) == ~exists

\* os.makedirs(icons_dir): raises when the directory is there, or when the
\* system refuses; the exception is not caught.
Makedirs ==
    /\ madeDir' = TRUE
    /\ \/ /\ dirExists
          /\ failure' = "FileExistsError"
          /\ pc' = "failed"
          /\ UNCHANGED dirExists
       \/ /\ ~dirExists
          /\ \/ dirExists' = TRUE /\ pc' = "loop" /\ UNCHANGED failure
             \/ UNCHANGED dirExists /\ pc' = "failed" /\ failure' = "makedirs"

EnsureDir ==
    /\ pc = "start"
    /\ IF NeedsMakedirs(dirExists)
       THEN Makedirs
       ELSE pc' = "loop" /\ UNCHANGED <<dirExists, failure, madeDir>>
    /\ UNCHANGED <<iconVars, icon, i, files, out, saved, runVars>>

\* for size in sizes: create_icon(size) is entered, its locals not yet bound.
NextSize ==
    /\ pc = "loop"
    /\ i <= Len(sizes)
    /\ size' = sizes[i]
    /\ img' = None /\ y' = None /\ strokes' = <<>>
    /\ padding' = None /\ line_width' = None
    /\ line_start_x' = None /\ line_end_x' = None
    /\ line1_y' = None /\ line2_y' = None /\ line3_y' = None
    /\ pc' = "new"
    /\ UNCHANGED <<icon, i, diskVars, out, saved, failure, runVars, madeDir>>

\* icon.save(f'{icons_dir}/icon{size}.png') returns: the file holds the icon.
SaveOk ==
    /\ pc = "save"
    /\ dirExists
    /\ files' = (FileName(size) :> Png(icon)) @@ files
    /\ saved' = Append(saved, [size |-> size, content |-> Png(icon)])
    /\ pc' = "print"
    /\ UNCHANGED <<iconVars, icon, i, dirExists, out, failure, runVars, madeDir>>

\* Mutant of SaveFails: the exception is swallowed and the loop goes on.
SaveFailsSwallowed ==
    /\ pc = "save"
    /\ UNCHANGED files
    /\ failure' = "save"
    /\ pc' = "print"
    /\ UNCHANGED <<iconVars, icon, i, dirExists, out, saved, runVars, madeDir>>

\* icon.save(...) raises: either the file could not be opened and the disk is
\* as it was, or the write broke off and left an incomplete file.  The
\* exception is not caught.
SaveFails ==
    /\ pc = "save"
    /\ \/ UNCHANGED files
       \/ dirExists /\ files' = (FileName(size) :> Incomplete) @@ files
    /\ failure' = "save"
    /\ pc' = "failed"
    /\ UNCHANGED <<iconVars, icon, i, dirExists, out, saved, runVars, madeDir>>

\* print(f'Created icon{size}.png'), and the loop goes on.
PrintCreated ==
    /\ pc = "print"
    /\ out' = Append(out, Progress(size))
    /\ i' = i + 1
    /\ pc' = "loop"
    /\ UNCHANGED <<iconVars, icon, diskVars, saved, failure, runVars, madeDir>>

\* Mutant of Finish: the loop is left after its first iteration.
FinishAfterFirst ==
    /\ pc = "loop"
    /\ i > 1
    /\ out' = Append(out, Completion)
    /\ pc' = "done"
    /\ UNCHANGED <<iconVars, icon, i, diskVars, saved, failure, runVars, madeDir>>

\* The loop is exhausted: print('All icons created successfully!')
Finish ==
    /\ pc = "loop"
    /\ i > Len(sizes)
    /\ out' = Append(out, Completion)
    /\ pc' = "done"
    /\ UNCHANGED <<iconVars, icon, i, diskVars, saved, failure, runVars, madeDir>>

\* The script is invoked again after a complete run: a new process, the same disk.
Rerun ==
    /\ pc = "done"
    /\ run < MaxRuns
    /\ run' = run + 1
    /\ prevDone' = TRUE
    /\ startDir' = dirExists
    /\ startFiles' = files
    /\ pc' = "start"
    /\ i' = 1
    /\ out' = <<>> /\ saved' = <<>> /\ failure' = "none" /\ madeDir' = FALSE
    /\ size' = None /\ img' = None /\ y' = None /\ strokes' = <<>>
    /\ padding' = None /\ line_width' = None
    /\ line_start_x' = None /\ line_end_x' = None
    /\ line1_y' = None /\ line2_y' = None /\ line3_y' = None
    /\ icon' = None
    /\ UNCHANGED diskVars

\* The script starts with the sizes list at its head; icons/ may or may not
\* be there already, and holds no icons.
Init ==
    /\ pc = "start"
    /\ i = 1
    /\ run = 1 /\ prevDone = FALSE
    /\ dirExists \in BOOLEAN
    /\ files = <<>>
    /\ startDir = dirExists /\ startFiles = files
    /\ out = <<>> /\ saved = <<>> /\ failure = "none" /\ madeDir = FALSE
    /\ size = None /\ img = None /\ y = None /\ strokes = <<>>
    /\ padding = None /\ line_width = None
    /\ line_start_x = None /\ line_end_x = None
    /\ line1_y = None /\ line2_y = None /\ line3_y = None
    /\ icon = None

Next ==
    \/ EnsureDir \/ NextSize \/ CreateIcon
    \/ SaveOk \/ SaveFails \/ PrintCreated \/ Finish \/ Rerun

Spec == Init /\ [][Next]_vars

----------------------------------------------------------------------------
(* The properties.                                                         *)

IconNames == {"icon16.png", "icon48.png", "icon128.png"}
InCreateIcon == pc \in {"new", "gradient", "line1", "line2", "line3", "return"}
Returned == pc = "save"

\* C1: a run that completes from a disk without icons/ leaves the directory
\* with exactly icon16.png, icon48.png and icon128.png, each a complete icon,
\* and has printed the three progress lines and the completion line, in the
\* order of the sizes.
C1_EndToEnd ==
    (pc = "done" /\ ~startDir) =>
        /\ dirExists
        /\ DOMAIN files = IconNames
        /\ \A n \in DOMAIN files : files[n].complete
        /\ out = <<"Created icon16.png", "Created icon48.png",
                   "Created icon128.png", "All icons created successfully!">>

C1_Witness == pc = "done" /\ ~startDir /\ madeDir /\ run = 1

C3_RerunIdempotent ==
    prevDone =>
        /\ ~madeDir
        /\ failure \in {"none", "save"}
        /\ pc = "done" =>
              /\ DOMAIN files = IconNames
              /\ files = startFiles
              /\ \A n \in DOMAIN files : files[n].complete

C3_Witness == prevDone /\ pc = "done" /\ run = 2 /\ Len(saved) = 3

\* A corner pixel lies on the outline when a box of the outline stroke holds it.
OnOutline(col, row) ==
    \E b \in OutlineBoxes(RectCoords(size).x0, RectCoords(size).y0,
                          RectCoords(size).x1, RectCoords(size).y1, LineWidth(size)) :
        InBox(col, row, b)

Corners == {<<0, 0>>, <<size - 1, 0>>, <<0, size - 1>>, <<size - 1, size - 1>>}

\* C4 as stated: in the returned canvas a corner pixel that the outline does
\* not cover has alpha 0.
C4_CornersTransparent ==
    Returned =>
        \A c \in Corners : ~OnOutline(c[1], c[2]) => icon[c[2]][c[1]][4] = 0

\* C4, amended: for the sizes 16, 48 and 128 the outline covers none of the
\* four corner pixels of the returned canvas, and each of them is opaque
\* (alpha 255): the gradient fill has painted it.
C4_CornersOpaque ==
    Returned =>
        \A c \in Corners : ~OnOutline(c[1], c[2]) /\ icon[c[2]][c[1]][4] = 255

C4_Witness == Returned /\ size = 16 /\ icon[0][0][4] = 255 /\ icon[15][15][4] = 255

\* C5: while the background is filled, every row painted so far has one
\* opaque color along the whole row; row 0 has the start color (139, 92,
\* 246); from each row to the next red does not increase and stays at or
\* above 59, green does not decrease and stays at or below 130, blue is 246.
C5_GradientMonotone ==
    (pc = "gradient") =>
        /\ \A row \in 0 .. y - 1 : \A col \in 0 .. size - 1 :
              /\ img[row][col] = img[row][0]
              /\ img[row][col][4] = 255
              /\ img[row][col][3] = 246
              /\ img[row][col][1] >= 59 /\ img[row][col][1] <= 139
              /\ img[row][col][2] <= 130 /\ img[row][col][2] >= 92
        /\ y >= 1 => img[0][0] = <<139, 92, 246, 255>>
        /\ \A row \in 1 .. y - 1 :
              /\ img[row][0][1] <= img[row - 1][0][1]
              /\ img[row][0][2] >= img[row - 1][0][2]

\* The fill is finished, and the colors of the first and the last row differ.
C5_Witness ==
    /\ pc = "gradient" /\ y = size /\ size = 48
    /\ img[47][0][1] < img[0][0][1] /\ img[47][0][2] > img[0][0][2]

\* C6: the stroke width is max(2, floor(size / 32)), which is 2 for 16, 2
\* for 48 and 4 for 128, and every stroke drawn on the canvas, the outline
\* and the three guide lines, is drawn at that width.
C6_StrokeWidth ==
    /\ Len(strokes) >= 1 =>
          /\ line_width >= 2 /\ line_width >= size \div 32
          /\ line_width = 2 \/ line_width = size \div 32
          /\ size \in {16, 48} => line_width = 2
          /\ size = 128 => line_width = 4
          /\ \A k \in DOMAIN strokes : strokes[k].width = line_width
    /\ Returned =>
          /\ Len(strokes) = 4
          /\ strokes[1].op = "rectangle"
          /\ \A k \in 2 .. 4 : strokes[k].op = "line"

C6_Witness == Returned /\ size = 128 /\ Len(strokes) = 4 /\ strokes[4].width = 4

\* C7: from its allocation to its return the canvas has exactly size rows of
\* exactly size pixels, and so has the icon handed back.
C7_CanvasSize ==
    /\ pc \in {"gradient", "line1", "line2", "line3", "return", "save"} =>
          /\ DOMAIN img = 0 .. size - 1
          /\ \A row \in DOMAIN img : DOMAIN img[row] = 0 .. size - 1
    /\ Returned =>
          /\ DOMAIN icon = 0 .. size - 1
          /\ \A row \in DOMAIN icon : DOMAIN icon[row] = 0 .. size - 1

\* The last gradient rectangle, with its corner (size, size) outside the
\* canvas, has been drawn.
C7_Witness == pc = "gradient" /\ y = size /\ size = 5 /\ img[4][4][4] = 255

NumProgress == Cardinality({k \in DOMAIN out : out[k] # Completion})

\* C8: in every state the saves done by the invocation are those of a prefix
\* of sizes, the progress lines are those of a prefix of sizes, there are as
\* many progress lines as saves or one less, while a canvas is being drawn
\* every earlier size has been saved, and the completion line is the last
\* line, printed after all three saves.
C8_Sequential ==
    /\ Len(saved) <= Len(sizes)
    /\ \A k \in DOMAIN saved : saved[k].size = sizes[k]
    /\ NumProgress <= Len(sizes)
    /\ \A k \in 1 .. NumProgress : out[k] = Progress(sizes[k])
    /\ NumProgress = Len(saved) \/ NumProgress = Len(saved) - 1
    /\ InCreateIcon => Len(saved) = i - 1 /\ size = sizes[i]
    /\ (\E k \in DOMAIN out : out[k] = Completion) =>
          /\ Len(saved) = Len(sizes)
          /\ Len(out) = Len(sizes) + 1
          /\ out[Len(out)] = Completion

\* The second icon is saved and not yet announced.
C8_Witness == pc = "print" /\ Len(saved) = 2 /\ NumProgress = 1

\* C9: in the returned canvas of the sizes 16, 48 and 128 every pixel outside
\* the square [padding, size - padding] x [padding, size - padding] is opaque
\* and has the gradient color of its own row, the interpolation at y / size.
C9_OutsideSquareIsGradient ==
    Returned =>
        \A row \in 0 .. size - 1 : \A col \in 0 .. size - 1 :
            LET pad == (15 * size) \div 100
            IN  (col < pad \/ col > size - pad \/ row < pad \/ row > size - pad) =>
                    icon[row][col] = <<139 + ((-80) * row) \div size,
                                       92 + (38 * row) \div size, 246, 255>>

\* The icon of 128 pixels is returned; its last row has the color of row 127
\* and a pixel of the outline is white.
C9_Witness ==
    /\ Returned /\ size = 128
    /\ icon[127][127] = <<59, 129, 246, 255>>
    /\ icon[19][19] = White

\* C10: the guide lines lie strictly inside the bounding square, in order,
\* all start at line_start_x, the first two end at line_end_x, and the third
\* ends floor(inner * 0.2) before it, still after line_start_x.
C10_GuideLines ==
    (Len(strokes) >= 2) =>
        LET inner == size - 2 * padding
            hi == size - padding
        IN  /\ padding = (15 * size) \div 100
            /\ padding < line1_y /\ line1_y < line2_y
            /\ line2_y < line3_y /\ line3_y < hi
            /\ padding < line_start_x /\ line_end_x < hi
            /\ \A k \in 2 .. Len(strokes) :
                  /\ strokes[k].xy.x0 = line_start_x
                  /\ strokes[k].xy.y0 = strokes[k].xy.y1
            /\ Len(strokes) >= 2 =>
                  strokes[2].xy.x1 = line_end_x /\ strokes[2].xy.y0 = line1_y
            /\ Len(strokes) >= 3 =>
                  strokes[3].xy.x1 = line_end_x /\ strokes[3].xy.y0 = line2_y
            /\ Len(strokes) >= 4 =>
                  /\ strokes[4].xy.y0 = line3_y
                  /\ strokes[4].xy.x1 = line_end_x - (2 * inner) \div 10
                  /\ strokes[4].xy.x1 < line_end_x
                  /\ strokes[4].xy.x1 > line_start_x

\* All three lines of the 128 pixel icon are drawn; its third line is at row 81.
C10_Witness == Returned /\ size = 128 /\ Len(strokes) = 4 /\ line3_y = 81

====
